---- MODULE Spec2Model ----
(***************************************************************************)
(* Model of the student score service of main.py: the module-level list    *)
(* `score` and the six handlers that read or mutate it.                    *)
(*                                                                         *)
(* Conventions.                                                            *)
(*  - A stored record is the five-element list [name, korean, english,     *)
(*    math, science] of the source, modelled as a tuple; Python index k is *)
(*    TLA+ index k+1.                                                      *)
(*  - The Korean names of the source are written in romanised form, since  *)
(*    the module is ASCII: "SejongDaewang" is the seed name of line 24,    *)
(*    "JeongYakyong" that of line 15, "Test" is a name absent from the     *)
(*    seed roster, "" is the empty string.                                 *)
(*  - A float that the source rounds to two decimals is carried as the     *)
(*    integer number of hundredths (82.5 is 8250).                         *)
(*  - One request is one atomic step (the handlers never await).  The      *)
(*    variables op, arg, input, status, body record the last request and   *)
(*    its response; score is the program's only state.                     *)
(***************************************************************************)
EXTENDS Integers, Sequences, FiniteSets, TLC

VARIABLES score, nmut, op, arg, input, status, body

vars == <<score, nmut, op, arg, input, status, body>>

(* Number of successful mutations explored from the seed roster. *)
MaxMutations == 3

(* Field(..., ge=0, le=100) *)
MinScore == 0
MaxScore == 100

(* Names a request path may carry: a name absent from the seed roster, its last and *)
(* its first name; the route /students/{name} matches no empty segment.             *)
PathNames == {"Test", "SejongDaewang", "JeongYakyong"}

ScoreInput(n, k, e, m, s) ==
    [name |-> n, korean |-> k, english |-> e, math |-> m, science |-> s]

(* Request bodies that have the five required fields with the right types: a fresh *)
(* name (twice), the empty name and a seed name with scores in range, and two      *)
(* bodies with a score above and a score below the range.                          *)
Bodies ==
    { ScoreInput("Test", 99, 97, 98, 96),
      ScoreInput("Test", 100, 100, 100, 100),
      ScoreInput("", 100, 100, 100, 100),
      ScoreInput("SejongDaewang", 100, 100, 100, 100),
      ScoreInput("Test", 150, 0, 0, 0),
      ScoreInput("SejongDaewang", 0, 0, 0, -1) }

NoName == "-"
NoInput == [name |-> NoName]
NoBody == [detail |-> "none"]

(* The seed roster. *)
SeedScore ==
    << <<"JeongYakyong", 85, 90, 80, 75>>,
       <<"YiSunsin", 78, 82, 90, 88>>,
       <<"YiYulgok", 92, 85, 87, 95>>,
       <<"HongGildong", 80, 76, 70, 82>>,
       <<"SinSaimdang", 95, 98, 94, 99>>,
       <<"ChoeMuseon", 73, 70, 78, 80>>,
       <<"JangYeongsil", 88, 89, 85, 92>>,
       <<"KimYusin", 77, 75, 73, 70>>,
       <<"AnJunggeun", 84, 83, 80, 79>>,
       <<"SejongDaewang", 99, 97, 98, 96>> >>

(* ---------------------------------------------------------------------- *)
(* Pure helpers                                                            *)
(* ---------------------------------------------------------------------- *)

(* Variant: the lower bound ge=0 is missing. *)
ScoreInputValid_NoLowerBound(x) ==
    /\ x.korean <= MaxScore
    /\ x.english <= MaxScore
    /\ x.math <= MaxScore
    /\ x.science <= MaxScore

(* The constraints of ScoreInput: name is any string, each score has ge=0, le=100. *)
ScoreInputValid(x) ==
    /\ x.korean >= MinScore /\ x.korean <= MaxScore
    /\ x.english >= MinScore /\ x.english <= MaxScore
    /\ x.math >= MinScore /\ x.math <= MaxScore
    /\ x.science >= MinScore /\ x.science <= MaxScore

convert_to_dict(score_list) ==
    [name |-> score_list[1], korean |-> score_list[2], english |-> score_list[3],
     math |-> score_list[4], science |-> score_list[5]]

(* round(num / den, 2) in hundredths, for num >= 0, den > 0: round-half-to-even. *)
round2(num, den) ==
    LET n == num * 100
        q == n \div den
        r == n % den
    IN  IF 2 * r < den THEN q
        ELSE IF 2 * r > den THEN q + 1
        ELSE IF q % 2 = 0 THEN q ELSE q + 1

(* Variant: the average is taken with integer division (total // 4). *)
calculate_scores_FloorDiv(score_dict) ==
    LET total == score_dict.korean + score_dict.english + score_dict.math + score_dict.science
        average == (total \div 4) * 100
    IN  [name |-> score_dict.name, korean |-> score_dict.korean,
         english |-> score_dict.english, math |-> score_dict.math,
         science |-> score_dict.science, total |-> total, average |-> average]

calculate_scores(score_dict) ==
    LET total == score_dict.korean + score_dict.english + score_dict.math + score_dict.science
        average == round2(total, 4)
    IN  [name |-> score_dict.name, korean |-> score_dict.korean,
         english |-> score_dict.english, math |-> score_dict.math,
         science |-> score_dict.science, total |-> total, average |-> average]

(* Variant: korean and english are stored in each other's place. *)
new_student_Swapped(score_input) ==
    <<score_input.name, score_input.english, score_input.korean,
      score_input.math, score_input.science>>

(* The list [name, korean, english, math, science] built from a request body. *)
new_student(score_input) ==
    <<score_input.name, score_input.korean, score_input.english,
      score_input.math, score_input.science>>

(* Index of the first record whose element 0 equals name, 0 when the loop finds none. *)
first_index(s, name) ==
    IF \E i \in 1..Len(s) : s[i][1] = name
    THEN CHOOSE i \in 1..Len(s) : s[i][1] = name /\ \A j \in 1..(i - 1) : s[j][1] # name
    ELSE 0

(* list.pop(i): the list without its element at i. *)
pop(s, i) == [k \in 1..(Len(s) - 1) |-> IF k < i THEN s[k] ELSE s[k + 1]]

(* [s[k] for s in score]: the column of Python index k. *)
column(s, k) == [i \in 1..Len(s) |-> s[i][k + 1]]

RECURSIVE sum_seq(_)
sum_seq(xs) == IF Len(xs) = 0 THEN 0 ELSE xs[1] + sum_seq(Tail(xs))

(* round(mean(xs), 2) of a non-empty list of integers, in hundredths. *)
round_mean(xs) == round2(sum_seq(xs), Len(xs))

(* round(mean([a, b, c, d]), 2) where the four arguments are floats given in      *)
(* hundredths.  The mean of the four doubles is a double; when the decimal mean   *)
(* lies exactly half way between two hundredths the double lies on either side   *)
(* unless all four arguments are exact in binary (multiples of 0.25), and round  *)
(* follows the double.  The set holds every result the floats can produce.       *)
overall_outcomes(avgs) ==
    LET h == sum_seq(avgs)
        q == h \div 4
        r == h % 4
    IN  IF r < 2 THEN {q}
        ELSE IF r > 2 THEN {q + 1}
        ELSE IF \A i \in 1..Len(avgs) : avgs[i] % 25 = 0
             THEN {IF q % 2 = 0 THEN q ELSE q + 1}
             ELSE {q, q + 1}

(* student_totals: the pairs (name, sum(student_score[1:])) in roster order. *)
student_totals(s) ==
    [i \in 1..Len(s) |-> <<s[i][1], s[i][2] + s[i][3] + s[i][4] + s[i][5]>>]

(* Variant: the scan replaces the best on an equal key too, so the last maximum wins. *)
RECURSIVE max_scan_LastWins(_, _, _)
max_scan_LastWins(pairs, i, best) ==
    IF i > Len(pairs) THEN best
    ELSE IF pairs[i][2] >= best[2] THEN max_scan_LastWins(pairs, i + 1, pairs[i])
    ELSE max_scan_LastWins(pairs, i + 1, best)

(* max(pairs, key=lambda x: x[1]) as the builtin computes it: one pass that     *)
(* keeps the current best and replaces it only by a strictly greater key.       *)
RECURSIVE max_scan(_, _, _)
max_scan(pairs, i, best) ==
    IF i > Len(pairs) THEN best
    ELSE IF pairs[i][2] > best[2] THEN max_scan(pairs, i + 1, pairs[i])
    ELSE max_scan(pairs, i + 1, best)

max_by_total(pairs) == max_scan(pairs, 2, pairs[1])

top_student(s) == max_by_total(student_totals(s))[1]

not_found(name) == [detail |-> "NotFound", name |-> name]

(* ---------------------------------------------------------------------- *)
(* Handlers                                                                *)
(* ---------------------------------------------------------------------- *)

Init ==
    /\ score = SeedScore
    /\ nmut = 0
    /\ op = "start"
    /\ arg = NoName
    /\ input = NoInput
    /\ status = 0
    /\ body = NoBody

(* GET /students *)
get_all_students ==
    /\ op' = "list"
    /\ arg' = NoName
    /\ input' = NoInput
    /\ status' = 200
    /\ body' = [i \in 1..Len(score) |-> calculate_scores(convert_to_dict(score[i]))]
    /\ UNCHANGED <<score, nmut>>

(* GET /students/{name} *)
get_student(name) ==
    LET i == first_index(score, name) IN
    /\ op' = "get"
    /\ arg' = name
    /\ input' = NoInput
    /\ IF i # 0
       THEN status' = 200 /\ body' = calculate_scores(convert_to_dict(score[i]))
       ELSE status' = 404 /\ body' = not_found(name)
    /\ UNCHANGED <<score, nmut>>

(* GET /statistics *)
get_statistics ==
    /\ op' = "statistics"
    /\ arg' = NoName
    /\ input' = NoInput
    /\ IF Len(score) = 0
       THEN status' = 404 /\ body' = [detail |-> "NoData"]
       ELSE LET avg_korean == round_mean(column(score, 1))
                avg_english == round_mean(column(score, 2))
                avg_math == round_mean(column(score, 3))
                avg_science == round_mean(column(score, 4))
            IN  /\ status' = 200
                /\ \E overall_avg \in
                        overall_outcomes(<<avg_korean, avg_english, avg_math, avg_science>>) :
                     body' = [total_students |-> Len(score),
                              average_korean |-> avg_korean,
                              average_english |-> avg_english,
                              average_math |-> avg_math,
                              average_science |-> avg_science,
                              overall_average |-> overall_avg,
                              top_student |-> top_student(score)]
    /\ UNCHANGED <<score, nmut>>

(* The request body of POST and PUT is validated against ScoreInput before the *)
(* handler is called; a body that fails is answered 422 and the handler is not *)
(* run.                                                                        *)
validation_error(o, name, score_input) ==
    /\ ~ScoreInputValid(score_input)
    /\ op' = o
    /\ arg' = name
    /\ input' = score_input
    /\ status' = 422
    /\ body' = [detail |-> "ValidationError"]
    /\ UNCHANGED <<score, nmut>>

(* Variant: the duplicate check of lines 210-215 is missing. *)
create_student_NoDuplicateCheck(score_input) ==
    \/ validation_error("create", NoName, score_input)
    \/ /\ ScoreInputValid(score_input)
       /\ op' = "create"
       /\ arg' = NoName
       /\ input' = score_input
       /\ nmut < MaxMutations
       /\ score' = Append(score, new_student(score_input))
       /\ nmut' = nmut + 1
       /\ status' = 200
       /\ body' = calculate_scores(convert_to_dict(new_student(score_input)))

(* Variant: the new record is inserted at the front (score.insert(0, ...)). *)
create_student_Prepend(score_input) ==
    \/ validation_error("create", NoName, score_input)
    \/ /\ ScoreInputValid(score_input)
       /\ op' = "create"
       /\ arg' = NoName
       /\ input' = score_input
       /\ IF first_index(score, score_input.name) # 0
          THEN /\ status' = 400
               /\ body' = [detail |-> "Conflict", name |-> score_input.name]
               /\ UNCHANGED <<score, nmut>>
          ELSE /\ nmut < MaxMutations
               /\ score' = <<new_student(score_input)>> \o score
               /\ nmut' = nmut + 1
               /\ status' = 200
               /\ body' = calculate_scores(convert_to_dict(new_student(score_input)))

(* POST /students *)
create_student(score_input) ==
    \/ validation_error("create", NoName, score_input)
    \/ /\ ScoreInputValid(score_input)
       /\ op' = "create"
       /\ arg' = NoName
       /\ input' = score_input
       /\ IF first_index(score, score_input.name) # 0
          THEN /\ status' = 400
               /\ body' = [detail |-> "Conflict", name |-> score_input.name]
               /\ UNCHANGED <<score, nmut>>
          ELSE /\ nmut < MaxMutations
               /\ score' = Append(score, new_student(score_input))
               /\ nmut' = nmut + 1
               /\ status' = 200
               /\ body' = calculate_scores(convert_to_dict(new_student(score_input)))

(* Variant: an absent name is inserted instead of answered 404 (upsert). *)
update_student_Upsert(name, score_input) ==
    \/ validation_error("update", name, score_input)
    \/ /\ ScoreInputValid(score_input)
       /\ op' = "update"
       /\ arg' = name
       /\ input' = score_input
       /\ nmut < MaxMutations
       /\ nmut' = nmut + 1
       /\ status' = 200
       /\ LET i == first_index(score, name) IN
          IF i # 0
          THEN /\ score' = [score EXCEPT ![i] = new_student(score_input)]
               /\ body' = calculate_scores(convert_to_dict(score'[i]))
          ELSE /\ score' = Append(score, new_student(score_input))
               /\ body' = calculate_scores(convert_to_dict(new_student(score_input)))

(* PUT /students/{name} *)
update_student(name, score_input) ==
    \/ validation_error("update", name, score_input)
    \/ /\ ScoreInputValid(score_input)
       /\ op' = "update"
       /\ arg' = name
       /\ input' = score_input
       /\ LET i == first_index(score, name) IN
          IF i # 0
          THEN /\ nmut < MaxMutations
               /\ score' = [score EXCEPT ![i] = new_student(score_input)]
               /\ nmut' = nmut + 1
               /\ status' = 200
               /\ body' = calculate_scores(convert_to_dict(score'[i]))
          ELSE /\ status' = 404
               /\ body' = not_found(name)
               /\ UNCHANGED <<score, nmut>>

(* DELETE /students/{name} *)
delete_student(name) ==
    /\ op' = "delete"
    /\ arg' = name
    /\ input' = NoInput
    /\ LET i == first_index(score, name) IN
       IF i # 0
       THEN /\ nmut < MaxMutations
            /\ score' = pop(score, i)
            /\ nmut' = nmut + 1
            /\ status' = 200
            /\ body' = [message |-> <<"deleted", name>>,
                        deleted_student |-> convert_to_dict(score[i])]
       ELSE /\ status' = 404
            /\ body' = not_found(name)
            /\ UNCHANGED <<score, nmut>>

Next ==
    \/ get_all_students
    \/ \E name \in PathNames : get_student(name)
    \/ get_statistics
    \/ \E score_input \in Bodies : create_student(score_input)
    \/ \E name \in PathNames, score_input \in Bodies : update_student(name, score_input)
    \/ \E name \in PathNames : delete_student(name)

Spec == Init /\ [][Next]_vars

(* ---------------------------------------------------------------------- *)
(* Properties                                                              *)
(* ---------------------------------------------------------------------- *)

NameExists(s, name) == \E i \in 1..Len(s) : s[i][1] = name

(* The five fields of a request body laid out as a stored record. *)
FieldsOf(x) == <<x.name, x.korean, x.english, x.math, x.science>>

(* Every score of a request body lies in 0..100. *)
BodyInRange(x) ==
    \A f \in {"korean", "english", "math", "science"} : x[f] >= 0 /\ x[f] <= 100

TotalOf(rec) == rec[2] + rec[3] + rec[4] + rec[5]

(* s without its element at position i. *)
Without(s, i) == SubSeq(s, 1, i - 1) \o SubSeq(s, i + 1, Len(s))

(* C1: no two records of the roster have the same name. *)
C1_NamesUnique ==
    \A i, j \in 1..Len(score) : i # j => score[i][1] # score[j][1]

C2_DeleteStep ==
    /\ (op' = "delete" /\ NameExists(score, arg')) =>
          /\ status' = 200
          /\ Len(score') = Len(score) - 1
          /\ \E i \in 1..Len(score) : score[i][1] = arg' /\ score' = Without(score, i)
    /\ (op = "delete" /\ status = 200 /\ op' = "delete" /\ arg' = arg) =>
          /\ status' = 404
          /\ score' = score

(* C2: a delete of a present name removes exactly one record and keeps the  *)
(* order of the others, and a second delete of the same name issued right   *)
(* after a successful one answers 404 and leaves the roster unchanged.      *)
C2_DeleteTwice == [][C2_DeleteStep]_vars

C3_UpdateStep ==
    (op' = "update" /\ BodyInRange(input')) =>
        IF ~NameExists(score, arg')
        THEN status' = 404 /\ score' = score
        ELSE /\ status' = 200
             /\ Len(score') = Len(score)
             /\ \E i \in 1..Len(score) :
                    /\ score[i][1] = arg'
                    /\ \A j \in 1..(i - 1) : score[j][1] # arg'
                    /\ score'[i] = FieldsOf(input')
                    /\ \A j \in 1..Len(score) : j # i => score'[j] = score[j]

(* C3: an update whose path name is absent answers 404 and leaves the roster *)
(* unchanged; one whose path name is present overwrites the first record of  *)
(* that name with the five fields of the body, and nothing else.             *)
C3_UpdateFrame == [][C3_UpdateStep]_vars

C3_Witness ==
    /\ op = "update" /\ status = 200
    /\ input.name # arg
    /\ \E i \in 1..Len(score) : i < Len(score) /\ score[i] = FieldsOf(input)

C4_CreateStep ==
    (op' = "create" /\ NameExists(score, input'.name)) =>
        /\ score' = score
        /\ status' \in {400, 422}
        /\ BodyInRange(input') => status' = 400

(* C4: a create whose name is already in the roster fails and leaves the     *)
(* roster unchanged; once the body has passed the input boundary the answer  *)
(* is 400.                                                                   *)
C4_CreateConflict == [][C4_CreateStep]_vars

C4_Witness ==
    /\ op = "create" /\ status = 400
    /\ NameExists(score, input.name)
    /\ nmut > 0

C5_GetStep ==
    (op = "create" /\ status = 200 /\ op' = "get" /\ arg' = input.name) =>
        /\ status' = 200
        /\ body'.name = input.name
        /\ body'.korean = input.korean
        /\ body'.english = input.english
        /\ body'.math = input.math
        /\ body'.science = input.science
        /\ body'.total = body.total
        /\ body'.average = body.average

(* C5: a get of the name just created, issued right after the successful     *)
(* create, returns the fields that were sent and the total and average that  *)
(* create returned.                                                          *)
C5_CreateThenGet == [][C5_GetStep]_vars

(* The record appended by the only mutation so far has been read back. *)
C5_Witness ==
    /\ op = "get" /\ status = 200
    /\ nmut = 1 /\ Len(score) = Len(SeedScore) + 1
    /\ arg = score[Len(score)][1]
    /\ body.korean # body.english

C6_ScoresInRange ==
    \A i \in 1..Len(score) : \A k \in 2..5 : score[i][k] >= 0 /\ score[i][k] <= 100

C6_RejectStep ==
    (/\ op' \in {"create", "update"}
     /\ ~BodyInRange(input')) =>
        status' = 422 /\ score' = score

(* C6: every score of every record of the roster lies in 0..100, and a       *)
(* create or update whose body has a score outside 0..100 answers 422 and    *)
(* leaves the roster unchanged.                                              *)
C6_ScoreRange == []C6_ScoresInRange /\ [][C6_RejectStep]_vars

C6_Witness == op = "update" /\ status = 422 /\ input.science < 0 /\ nmut > 0

(* C7: on a non-empty roster statistics answers with the name of the first   *)
(* record whose sum of four scores is the highest; on the seed roster that   *)
(* is SejongDaewang with 390, and total_students is 10.                      *)
C7_TopStudent ==
    (op = "statistics" /\ Len(score) > 0) =>
        /\ status = 200
        /\ \E i \in 1..Len(score) :
              /\ body.top_student = score[i][1]
              /\ \A j \in 1..Len(score) : TotalOf(score[j]) <= TotalOf(score[i])
              /\ \A j \in 1..(i - 1) : TotalOf(score[j]) < TotalOf(score[i])
        /\ score = SeedScore =>
              /\ body.top_student = "SejongDaewang"
              /\ TotalOf(score[10]) = 390
              /\ body.total_students = 10

(* Statistics has answered on a roster where two records share the highest sum. *)
C7_Witness ==
    /\ op = "statistics" /\ status = 200
    /\ \E i, j \in 1..Len(score) :
          /\ i < j
          /\ TotalOf(score[i]) = TotalOf(score[j])
          /\ \A k \in 1..Len(score) : TotalOf(score[k]) <= TotalOf(score[i])

Derived(r) ==
    /\ r.total = r.korean + r.english + r.math + r.science
    /\ r.total >= 0 /\ r.total <= 400
    /\ 4 * r.average = 100 * r.total

(* C8: every record returned by list, get, create and update has             *)
(* total = korean + english + math + science within 0..400 and               *)
(* average = total / 4 (in hundredths: 4 * average = 100 * total).           *)
C8_DerivedScores ==
    /\ (op \in {"get", "create", "update"} /\ status = 200) => Derived(body)
    /\ op = "list" => \A i \in 1..Len(body) : Derived(body[i])

C8_Witness ==
    /\ op = "list" /\ nmut > 0
    /\ \E i \in 1..Len(body) : body[i].total % 4 = 3
    /\ \E i \in 1..Len(body) : body[i].total = 400

(* C9: every record of the roster has a non-empty name. *)
C9_NamesNonEmpty ==
    \A i \in 1..Len(score) : score[i][1] # ""

C10_OrderStep ==
    /\ (op' = "create" /\ status' = 200) => score' = Append(score, FieldsOf(input'))
    /\ op' = "list" =>
          /\ score' = score
          /\ status' = 200
          /\ Len(body') = Len(score)
          /\ \A i \in 1..Len(score) :
                FieldsOf(body'[i]) = score[i]
    /\ \/ score' = score
       \/ Len(score') = Len(score) + 1 /\ SubSeq(score', 1, Len(score)) = score
       \/ \E i \in 1..Len(score) : score' = Without(score, i)
       \/ /\ Len(score') = Len(score)
          /\ \E i \in 1..Len(score) : \A j \in 1..Len(score) : j # i => score'[j] = score[j]

(* C10: a successful create puts the new record last and moves no other;     *)
(* list returns one derived record per roster record in roster order and     *)
(* changes nothing; no request reorders the records that survive it.         *)
C10_InsertionOrder == [][C10_OrderStep]_vars

(* list has answered after a create and a delete of an earlier record. *)
C10_Witness ==
    /\ op = "list" /\ status = 200
    /\ nmut >= 2
    /\ Len(body) = Len(SeedScore)
    /\ body[Len(body)].name = "Test"
    /\ body[1].name = "YiSunsin"

====
